---------------------------- MODULE Spec2Model ----------------------------
(***************************************************************************)
(* A model of src/main.py: the zigzag/varint integer codec and the four    *)
(* ways write() produces an Avro object container file.                    *)
(*                                                                         *)
(* Python integers are unbounded.  TLC's integers are 32 bits wide, so a   *)
(* Python int is modelled as a two's complement bit vector: NBits explicit *)
(* bits (least significant first) followed by infinitely many copies of    *)
(* the sign bit.  Every value the codec meets for a 64-bit argument fits.  *)
(***************************************************************************)
EXTENDS Integers, Sequences, FiniteSets, TLC

VARIABLES
    cin,      \* codec: the argument of the call
    cop,      \* codec: "idle", or the function that was called
    czz,      \* codec: what zigzag_encode returned
    cenc,     \* codec: what varint_encode / encode_zigzag_varint returned
    fs,       \* the bytes of each container file
    pc,       \* where each run of the program stands
    records,  \* write(): records
    out,      \* write(): the open file `out`: [file, pos]
    buf,      \* write(): the io.BytesIO `buf`: [value, pos]
    w,        \* write(): the private Writer `w`: [io, block_count, sent]
    idx,      \* write(): how many records the current for-loop has done
    data,     \* write(): data (and block, in the last section)
    stdout,   \* what print() has written
    rd,       \* read(): the file read and what the reader made of it
    overlap   \* history: a run opened a file another run had open

codecVars == <<cin, cop, czz, cenc>>
progVars == <<fs, pc, records, out, buf, w, idx, data, stdout, rd, overlap>>
vars == <<cin, cop, czz, cenc, fs, pc, records, out, buf, w, idx, data, stdout, rd, overlap>>

\* Number of explicit bits of a modelled Python int.
NBits == 68

\* src/main.py:31  n >> 63
ShiftBits == 63
\* src/main.py:36  value > 0x7F   and   src/main.py:37  value & 0x7F
LowMask == 127
\* src/main.py:37  | 0x80
ContBit == 128
\* src/main.py:38  value >>= 7
GroupBits == 7

-----------------------------------------------------------------------------
(* Python int arithmetic, on bit vectors *)

Ext(x) == IF x.neg THEN 1 ELSE 0

\* Bit i (1 = least significant) of x; beyond NBits the sign repeats.
BitAt(x, i) == IF i <= NBits THEN x.bits[i] ELSE Ext(x)

\* A small machine integer -2^30 <= k < 2^30 as a Python int.
FromInt(k) ==
    [bits |-> [i \in 1..NBits |-> IF i <= 31 THEN (k \div (2^(i-1))) % 2
                                  ELSE IF k < 0 THEN 1 ELSE 0],
     neg  |-> k < 0]

Zero == FromInt(0)

IsNeg(x) == x.neg

\* x << k
Shl(x, k) ==
    [bits |-> [i \in 1..NBits |-> IF i <= k THEN 0 ELSE x.bits[i-k]],
     neg  |-> x.neg]

\* x >> k  (Python's >> is arithmetic: it floors, the sign bit shifts in)
Shr(x, k) ==
    [bits |-> [i \in 1..NBits |-> BitAt(x, i+k)],
     neg  |-> x.neg]

\* x ^ y
Xor(x, y) ==
    [bits |-> [i \in 1..NBits |-> IF x.bits[i] = y.bits[i] THEN 0 ELSE 1],
     neg  |-> x.neg # y.neg]

\* x & y
And(x, y) ==
    [bits |-> [i \in 1..NBits |-> IF x.bits[i] = 1 /\ y.bits[i] = 1 THEN 1 ELSE 0],
     neg  |-> x.neg /\ y.neg]

\* x | y
Or(x, y) ==
    [bits |-> [i \in 1..NBits |-> IF x.bits[i] = 1 \/ y.bits[i] = 1 THEN 1 ELSE 0],
     neg  |-> x.neg \/ y.neg]

\* x > y
GreaterThan(x, y) ==
    IF x.neg # y.neg THEN y.neg
    ELSE \E i \in 1..NBits :
            /\ x.bits[i] = 1 /\ y.bits[i] = 0
            /\ \A j \in (i+1)..NBits : x.bits[j] = y.bits[j]

RECURSIVE SumBits(_, _)
SumBits(x, i) == IF i = 0 THEN 0 ELSE x.bits[i] * 2^(i-1) + SumBits(x, i-1)

\* The machine integer a small Python int stands for (|x| < 2^30).
ToInt(x) == SumBits(x, 30) - (IF x.neg THEN 2^30 ELSE 0)

-----------------------------------------------------------------------------
(* The codec, src/main.py:29-45 *)

\* A call either returns a value or raises.
Returned(v) == [raised |-> FALSE, value |-> v]
Raised      == [raised |-> TRUE,  value |-> <<>>]

\* bytearray.append(v): ValueError unless 0 <= v < 256.
bytearray_append(result, v) ==
    IF IsNeg(v) \/ GreaterThan(v, FromInt(255)) THEN Raised
    ELSE Returned(Append(result, ToInt(v)))

zigzag_encode_logical_shift(n) ==
    Xor(Shl(n, 1),
        IF IsNeg(n) THEN [bits |-> [i \in 1..NBits |-> IF i = 1 THEN 1 ELSE 0],
                          neg |-> FALSE]
        ELSE Zero)

\* return (n << 1) ^ (n >> 63 if n < 0 else 0)
zigzag_encode(n) ==
    Xor(Shl(n, 1), IF IsNeg(n) THEN Shr(n, ShiftBits) ELSE Zero)

\* The loop of varint_encode.  (value & 0x7F) | 0x80 is a byte whatever value
\* is, so only the append after the loop can raise.
RECURSIVE varint_loop(_, _)
varint_loop(result, value) ==
    IF GreaterThan(value, FromInt(LowMask))
    THEN varint_loop(
             Append(result, ToInt(Or(And(value, FromInt(LowMask)), FromInt(ContBit)))),
             Shr(value, GroupBits))
    ELSE bytearray_append(result, value)

RECURSIVE varint_loop_ge(_, _)
varint_loop_ge(result, value) ==
    IF GreaterThan(value, FromInt(LowMask - 1))
    THEN varint_loop_ge(
             Append(result, ToInt(Or(And(value, FromInt(LowMask)), FromInt(ContBit)))),
             Shr(value, GroupBits))
    ELSE bytearray_append(result, value)

varint_encode_ge(value) == varint_loop_ge(<<>>, value)

RECURSIVE varint_loop_nocont(_, _)
varint_loop_nocont(result, value) ==
    IF GreaterThan(value, FromInt(LowMask))
    THEN varint_loop_nocont(
             Append(result, ToInt(And(value, FromInt(LowMask)))),
             Shr(value, GroupBits))
    ELSE bytearray_append(result, value)

varint_encode_nocont(value) == varint_loop_nocont(<<>>, value)

\* result = bytearray(); while value > 0x7F: ...; result.append(value)
varint_encode(value) == varint_loop(<<>>, value)

encode_zigzag_varint_nozigzag(n) == varint_encode(n)

\* zigzagged = zigzag_encode(n); return varint_encode(zigzagged)
encode_zigzag_varint(n) == varint_encode(zigzag_encode(n))

-----------------------------------------------------------------------------
(* The fastavro library, which main.py calls: the Avro binary encoding and    *)
(* the object container format.  Lengths and counts are machine integers.     *)

\* The library's block buffer is flushed once it holds this many bytes
\* (fastavro: 1000 * 16; scaled down).
SyncInterval == 40

MAGIC == <<79, 98, 106, 1>>                                     \* b"Obj\x01"

lib_zigzag(n) == IF n >= 0 THEN 2 * n ELSE -2 * n - 1

RECURSIVE lib_varint(_)
lib_varint(u) ==
    IF u < 128 THEN <<u>> ELSE <<(u % 128) + 128>> \o lib_varint(u \div 128)

write_long(n) == lib_varint(lib_zigzag(n))

write_bytes(b) == write_long(Len(b)) \o b

\* A record of SCHEMA: name, then branch 0 ("int") and the number, then
\* branch 0 ("string") and the colour.  Branch 1 is null.
write_union(v) ==
    IF "int" \in DOMAIN v THEN write_long(0) \o write_long(v.int)
    ELSE IF "string" \in DOMAIN v THEN write_long(0) \o write_bytes(v.string)
    ELSE write_long(1)

write_record(rec) ==
    write_bytes(rec.name) \o write_union(rec.favorite_number)
    \o write_union(rec.favorite_color)

\* json.dumps of the parsed SCHEMA, abbreviated to "{}": framing reads its
\* length prefix only.
SchemaJson == <<123, 125>>

MetaMap ==
    write_long(2)
    \o write_bytes(<<97, 118, 114, 111, 46, 99, 111, 100, 101, 99>>)        \* avro.codec
    \o write_bytes(<<110, 117, 108, 108>>)                                  \* null
    \o write_bytes(<<97, 118, 114, 111, 46, 115, 99, 104, 101, 109, 97>>)   \* avro.schema
    \o write_bytes(SchemaJson)
    \o write_long(0)

write_header(sync_marker) == MAGIC \o MetaMap \o sync_marker

\* Writer.dump: one block.
dump(io, block_count, sync_marker) ==
    write_long(block_count) \o write_long(Len(io)) \o io \o sync_marker

\* Writer.write(rec): the Writer after the call and the bytes it sent to its
\* output.
Writer_write(wr, rec, sync_marker) ==
    IF Len(wr.io) + Len(write_record(rec)) >= SyncInterval
    THEN [io |-> <<>>, block_count |-> 0,
          sent |-> dump(wr.io \o write_record(rec), wr.block_count + 1, sync_marker)]
    ELSE [io |-> wr.io \o write_record(rec), block_count |-> wr.block_count + 1,
          sent |-> <<>>]

\* Writer.flush
Writer_flush(wr, sync_marker) ==
    IF Len(wr.io) > 0
    THEN [io |-> <<>>, block_count |-> 0,
          sent |-> dump(wr.io, wr.block_count, sync_marker)]
    ELSE [io |-> wr.io, block_count |-> wr.block_count, sent |-> <<>>]

NewWriter == [io |-> <<>>, block_count |-> 0, sent |-> <<>>]

RECURSIVE writer_blocks(_, _, _, _)
writer_blocks(recs, i, wr, sync_marker) ==
    IF i > Len(recs) THEN Writer_flush(wr, sync_marker).sent
    ELSE Writer_write(wr, recs[i], sync_marker).sent
         \o writer_blocks(recs, i + 1, Writer_write(wr, recs[i], sync_marker), sync_marker)

\* fastavro.writer(fo, schema, records, sync_marker = ...): everything it
\* writes to fo.
fastavro_writer(recs, sync_marker) ==
    write_header(sync_marker) \o writer_blocks(recs, 1, NewWriter, sync_marker)

\* What the library reader makes of a file --------------------------------

\* Position of the last byte of the varint starting at pos, 0 if it does not
\* end within four bytes (lengths in the model are far below 2^27).
VarintEnd(bytes, pos) ==
    IF \E i \in pos..Len(bytes) : i < pos + 4 /\ bytes[i] < 128
    THEN CHOOSE i \in pos..Len(bytes) :
            bytes[i] < 128 /\ \A j \in pos..(i-1) : bytes[j] >= 128
    ELSE 0

RECURSIVE VarintValue(_, _, _)
VarintValue(bytes, pos, last) ==
    IF pos = last THEN bytes[pos]
    ELSE (bytes[pos] % 128) + 128 * VarintValue(bytes, pos + 1, last)

lib_unzigzag(u) == IF u % 2 = 0 THEN u \div 2 ELSE -((u + 1) \div 2)

\* read_long at pos: [ok, value, next].
read_long(bytes, pos) ==
    IF VarintEnd(bytes, pos) = 0 THEN [ok |-> FALSE, value |-> 0, next |-> pos]
    ELSE [ok |-> TRUE,
          value |-> lib_unzigzag(VarintValue(bytes, pos, VarintEnd(bytes, pos))),
          next |-> VarintEnd(bytes, pos) + 1]

\* read_bytes at pos, reading no further than lim: [ok, value, next].
read_bytes(bytes, pos, lim) ==
    CHOOSE r \in
      { IF ~n.ok \/ n.value < 0 \/ n.next + n.value - 1 > lim
        THEN [ok |-> FALSE, value |-> <<>>, next |-> pos]
        ELSE [ok |-> TRUE, value |-> SubSeq(bytes, n.next, n.next + n.value - 1),
              next |-> n.next + n.value]
        : n \in {read_long(bytes, pos)} } : TRUE

Null == [null |-> TRUE]
BadValue == [ok |-> FALSE, value |-> Null, next |-> 0]

\* read_union for ["int", "null"] (kind = "int") or ["string", "null"].
read_union(bytes, pos, lim, kind) ==
    CHOOSE r \in
      { IF ~b.ok \/ b.next > lim + 1 THEN BadValue
        ELSE IF b.value = 1 THEN [ok |-> TRUE, value |-> Null, next |-> b.next]
        ELSE IF b.value # 0 THEN BadValue
        ELSE IF kind = "int"
        THEN CHOOSE r2 \in
               { IF ~v.ok \/ v.next > lim + 1 THEN BadValue
                 ELSE [ok |-> TRUE, value |-> [int |-> v.value], next |-> v.next]
                 : v \in {read_long(bytes, b.next)} } : TRUE
        ELSE CHOOSE r2 \in
               { IF ~v.ok THEN BadValue
                 ELSE [ok |-> TRUE, value |-> [string |-> v.value], next |-> v.next]
                 : v \in {read_bytes(bytes, b.next, lim)} } : TRUE
        : b \in {read_long(bytes, pos)} } : TRUE

\* One record of SCHEMA at pos, within bytes[..lim]: [ok, value, next].
read_record(bytes, pos, lim) ==
    CHOOSE r \in
      { IF ~nm.ok THEN BadValue
        ELSE CHOOSE r2 \in
          { IF ~num.ok THEN BadValue
            ELSE CHOOSE r3 \in
              { IF ~col.ok THEN BadValue
                ELSE [ok |-> TRUE,
                      value |-> [name |-> nm.value, favorite_number |-> num.value,
                                 favorite_color |-> col.value],
                      next |-> col.next]
                : col \in {read_union(bytes, num.next, lim, "string")} } : TRUE
            : num \in {read_union(bytes, nm.next, lim, "int")} } : TRUE
        : nm \in {read_bytes(bytes, pos, lim)} } : TRUE

\* count records from pos within bytes[..lim]: [ok, value (the records)].
RECURSIVE read_records(_, _, _, _, _)
read_records(bytes, pos, lim, count, acc) ==
    IF count = 0 THEN [ok |-> TRUE, value |-> acc]
    ELSE CHOOSE r \in
      { IF ~rec.ok THEN [ok |-> FALSE, value |-> acc]
        ELSE read_records(bytes, rec.next, lim, count - 1, Append(acc, rec.value))
        : rec \in {read_record(bytes, pos, lim)} } : TRUE

ReadError(acc) == [ok |-> FALSE, records |-> acc.records, blocks |-> acc.blocks,
                   markers_ok |-> acc.markers_ok]

\* The blocks from pos to the end of the file.  A block is (count, size, size
\* bytes holding count records, 16 bytes); the reader steps by count and size
\* and notes whether the 16 bytes are the header's marker.
RECURSIVE read_blocks(_, _, _, _)
read_blocks(bytes, pos, sync_marker, acc) ==
    IF pos > Len(bytes)
    THEN [ok |-> TRUE, records |-> acc.records, blocks |-> acc.blocks,
          markers_ok |-> acc.markers_ok]
    ELSE CHOOSE r \in
      { IF ~c.ok \/ c.value < 0 THEN ReadError(acc)
        ELSE CHOOSE r2 \in
          { IF ~sz.ok \/ sz.value < 0 \/ sz.next + sz.value + 16 - 1 > Len(bytes)
            THEN ReadError(acc)
            ELSE CHOOSE r3 \in
              { IF ~rs.ok THEN ReadError(acc)
                ELSE read_blocks(bytes, sz.next + sz.value + 16, sync_marker,
                       [records |-> acc.records \o rs.value,
                        blocks |-> acc.blocks + 1,
                        markers_ok |-> acc.markers_ok /\
                            SubSeq(bytes, sz.next + sz.value,
                                   sz.next + sz.value + 15) = sync_marker])
                : rs \in {read_records(bytes, sz.next, sz.next + sz.value - 1,
                                       c.value, <<>>)} } : TRUE
            : sz \in {read_long(bytes, c.next)} } : TRUE
        : c \in {read_long(bytes, pos)} } : TRUE

\* The metadata map from pos: the position after its closing zero count, 0 if
\* it is malformed.
RECURSIVE skip_map(_, _, _)
skip_map(bytes, pos, left) ==
    IF left > 0
    THEN CHOOSE r \in
      { IF ~k.ok THEN 0
        ELSE CHOOSE r2 \in
          { IF ~v.ok THEN 0 ELSE skip_map(bytes, v.next, left - 1)
            : v \in {read_bytes(bytes, k.next, Len(bytes))} } : TRUE
        : k \in {read_bytes(bytes, pos, Len(bytes))} } : TRUE
    ELSE CHOOSE r \in
      { IF ~n.ok \/ n.value < 0 THEN 0
        ELSE IF n.value = 0 THEN n.next
        ELSE skip_map(bytes, n.next, n.value)
        : n \in {read_long(bytes, pos)} } : TRUE

NoRecords == [records |-> <<>>, blocks |-> 0, markers_ok |-> TRUE]

\* fastavro.reader(strm, schema), iterated to the end: [ok, records, blocks,
\* markers_ok].
fastavro_reader(bytes) ==
    IF Len(bytes) < 4 \/ SubSeq(bytes, 1, 4) # MAGIC THEN ReadError(NoRecords)
    ELSE CHOOSE r \in
      { IF m = 0 \/ m + 16 - 1 > Len(bytes) THEN ReadError(NoRecords)
        ELSE read_blocks(bytes, m + 16, SubSeq(bytes, m, m + 15), NoRecords)
        : m \in {skip_map(bytes, 5, 0)} } : TRUE

-----------------------------------------------------------------------------
(* Files and in-memory buffers *)

Zeros(n) == [i \in 1..n |-> 0]

\* The content after b is written at offset pos: bytes there are replaced, a
\* gap before pos reads as zeros.
WriteAt(content, pos, b) ==
    SubSeq(content, 1, IF pos < Len(content) THEN pos ELSE Len(content))
    \o Zeros(pos - Len(content)) \o b
    \o SubSeq(content, pos + Len(b) + 1, Len(content))

Files == {"real", "fake", "priv", "buff"}
Closed == [file |-> "none", pos |-> 0]

\* Runs of the program.  Main is the run the specification Spec follows.
Procs == {"w1", "w2"}
Main == "w1"

\* src/main.py:76  marker = b'0123456789abcdef'
marker == <<48, 49, 50, 51, 52, 53, 54, 55, 56, 57, 97, 98, 99, 100, 101, 102>>

-----------------------------------------------------------------------------
(* generate_record, src/main.py:50-63 *)

\* len(records) is 1024 in write(); the model writes NumRecords records.
NumRecords == 3
\* "01234567890" * random.randint(1, 4000); the model repeats up to MaxRepeat.
MaxRepeat == 2

RECURSIVE Repeat(_, _)
Repeat(b, n) == IF n = 0 THEN <<>> ELSE b \o Repeat(b, n - 1)

Chris     == <<67, 104, 114, 105, 115>>
Yulingfei == <<89, 117, 108, 105, 110, 103, 102, 101, 105>>
Digits    == <<48, 49, 50, 51, 52, 53, 54, 55, 56, 57, 48>>
red       == <<114, 101, 100>>
yellow    == <<121, 101, 108, 108, 111, 119>>
orange    == <<111, 114, 97, 110, 103, 101>>

User(name, number, color) ==
    [name |-> name, favorite_number |-> [int |-> number],
     favorite_color |-> [string |-> color]]

\* Records generate_record can return; the model draws from these.
generate_record ==
    { User(Chris, 7, red), User(Yulingfei, 64, yellow),
      User(Digits, 0, orange), User(Repeat(Digits, MaxRepeat), 1024, red) }

RECURSIVE RecordLists(_)
RecordLists(n) ==
    IF n = 0 THEN {<<>>}
    ELSE { Append(rs, r) : rs \in RecordLists(n - 1), r \in generate_record }

-----------------------------------------------------------------------------
(* write(name), src/main.py:72-149, one action per statement *)

\* The run moves on to label; the codec's variables belong to no run.
Goto(p, label) == pc' = [pc EXCEPT ![p] = label] /\ UNCHANGED codecVars

Open_keep(p, f) ==
    /\ out' = [out EXCEPT ![p] = [file |-> f, pos |-> 0]]
    /\ fs' = fs
    /\ overlap' = (overlap \/ \E q \in Procs \ {p} : out[q].file = f)

\* open(..., 'wb'): the file is created or truncated, the position is 0.
Open(p, f) ==
    /\ out' = [out EXCEPT ![p] = [file |-> f, pos |-> 0]]
    /\ fs' = [fs EXCEPT ![f] = <<>>]
    /\ overlap' = (overlap \/ \E q \in Procs \ {p} : out[q].file = f)

\* out.write(b), and every write the library makes to out.  The bytes are
\* taken to reach the file when written.
OutWrite(p, b) ==
    /\ fs' = [fs EXCEPT ![out[p].file] = WriteAt(@, out[p].pos, b)]
    /\ out' = [out EXCEPT ![p].pos = @ + Len(b)]
    /\ UNCHANGED overlap

\* leaving the with-block
Close(p) ==
    /\ out' = [out EXCEPT ![p] = Closed]
    /\ UNCHANGED <<fs, overlap>>

\* line 80: records = [generate_record() for _ in range(1024)]
GenerateRecords(p) ==
    /\ pc[p] = "start"
    /\ \E rs \in RecordLists(NumRecords) : records' = [records EXCEPT ![p] = rs]
    /\ Goto(p, "real_open")
    /\ UNCHANGED <<fs, out, buf, w, idx, data, stdout, rd, overlap>>

\* line 86
RealOpen(p) ==
    /\ pc[p] = "real_open"
    /\ Open(p, "real")
    /\ Goto(p, "real_writer")
    /\ UNCHANGED <<records, buf, w, idx, data, stdout, rd>>

\* line 88: fastavro.writer(out, schema, records, sync_marker = marker)
RealWriter(p) ==
    /\ pc[p] = "real_writer"
    /\ OutWrite(p, fastavro_writer(records[p], marker))
    /\ Goto(p, "real_close")
    /\ UNCHANGED <<records, buf, w, idx, data, stdout, rd>>

RealClose(p) ==
    /\ pc[p] = "real_close"
    /\ Close(p)
    /\ Goto(p, "fake_open")
    /\ UNCHANGED <<records, buf, w, idx, data, stdout, rd>>

\* line 92
FakeOpen(p) ==
    /\ pc[p] = "fake_open"
    /\ Open(p, "fake")
    /\ Goto(p, "fake_header")
    /\ UNCHANGED <<records, buf, w, idx, data, stdout, rd>>

\* line 95: fastavro.writer(out, schema, [], sync_marker = marker)
FakeHeader(p) ==
    /\ pc[p] = "fake_header"
    /\ OutWrite(p, fastavro_writer(<<>>, marker))
    /\ Goto(p, "fake_buf")
    /\ UNCHANGED <<records, buf, w, idx, data, stdout, rd>>

\* line 97: buf = io.BytesIO()
FakeBuf(p) ==
    /\ pc[p] = "fake_buf"
    /\ buf' = [buf EXCEPT ![p] = [value |-> <<>>, pos |-> 0]]
    /\ idx' = [idx EXCEPT ![p] = 0]
    /\ Goto(p, "fake_loop")
    /\ UNCHANGED <<fs, out, records, w, data, stdout, rd, overlap>>

FakeEncode_overwrite(p) ==
    /\ pc[p] = "fake_loop"
    /\ idx[p] < Len(records[p])
    /\ buf' = [buf EXCEPT ![p] =
                 [value |-> write_record(records[p][idx[p] + 1]),
                  pos   |-> Len(write_record(records[p][idx[p] + 1]))]]
    /\ idx' = [idx EXCEPT ![p] = @ + 1]
    /\ Goto(p, "fake_loop")
    /\ UNCHANGED <<fs, out, records, w, data, stdout, rd, overlap>>

\* lines 99-104: for rec in records: fastavro.schemaless_writer(buf, schema, rec)
FakeEncode(p) ==
    /\ pc[p] = "fake_loop"
    /\ idx[p] < Len(records[p])
    /\ buf' = [buf EXCEPT ![p] =
                 [value |-> WriteAt(@.value, @.pos, write_record(records[p][idx[p] + 1])),
                  pos   |-> @.pos + Len(write_record(records[p][idx[p] + 1]))]]
    /\ idx' = [idx EXCEPT ![p] = @ + 1]
    /\ Goto(p, "fake_loop")
    /\ UNCHANGED <<fs, out, records, w, data, stdout, rd, overlap>>

\* line 106: data = buf.getvalue()
FakeGetValue(p) ==
    /\ pc[p] = "fake_loop"
    /\ idx[p] = Len(records[p])
    /\ data' = [data EXCEPT ![p] = buf[p].value]
    /\ Goto(p, "fake_count")
    /\ UNCHANGED <<fs, out, records, buf, w, idx, stdout, rd, overlap>>

FakeWriteCount_raw(p) ==
    /\ pc[p] = "fake_count"
    /\ stdout' = Append(stdout, Len(records[p]))
    /\ ~varint_encode(FromInt(Len(records[p]))).raised
    /\ OutWrite(p, varint_encode(FromInt(Len(records[p]))).value)
    /\ Goto(p, "fake_size")
    /\ UNCHANGED <<records, buf, w, idx, data, rd>>

\* lines 112-113: print(len(records));
\* out.write(encode_zigzag_varint((len(records))))
FakeWriteCount(p) ==
    /\ pc[p] = "fake_count"
    /\ stdout' = Append(stdout, Len(records[p]))
    /\ ~encode_zigzag_varint(FromInt(Len(records[p]))).raised
    /\ OutWrite(p, encode_zigzag_varint(FromInt(Len(records[p]))).value)
    /\ Goto(p, "fake_size")
    /\ UNCHANGED <<records, buf, w, idx, data, rd>>

FakeWriteSize_count(p) ==
    /\ pc[p] = "fake_size"
    /\ ~encode_zigzag_varint(FromInt(Len(records[p]))).raised
    /\ OutWrite(p, encode_zigzag_varint(FromInt(Len(records[p]))).value)
    /\ Goto(p, "fake_data")
    /\ UNCHANGED <<records, buf, w, idx, data, stdout, rd>>

\* line 117: out.write(encode_zigzag_varint(len(data)))
FakeWriteSize(p) ==
    /\ pc[p] = "fake_size"
    /\ ~encode_zigzag_varint(FromInt(Len(data[p]))).raised
    /\ OutWrite(p, encode_zigzag_varint(FromInt(Len(data[p]))).value)
    /\ Goto(p, "fake_data")
    /\ UNCHANGED <<records, buf, w, idx, data, stdout, rd>>

\* line 121: out.write(data)
FakeWriteData(p) ==
    /\ pc[p] = "fake_data"
    /\ OutWrite(p, data[p])
    /\ Goto(p, "fake_marker")
    /\ UNCHANGED <<records, buf, w, idx, data, stdout, rd>>

\* line 124: out.write(marker)
FakeWriteMarker(p) ==
    /\ pc[p] = "fake_marker"
    /\ OutWrite(p, marker)
    /\ Goto(p, "fake_close")
    /\ UNCHANGED <<records, buf, w, idx, data, stdout, rd>>

FakeClose(p) ==
    /\ pc[p] = "fake_close"
    /\ Close(p)
    /\ Goto(p, "priv_open")
    /\ UNCHANGED <<records, buf, w, idx, data, stdout, rd>>

\* line 127
PrivOpen(p) ==
    /\ pc[p] = "priv_open"
    /\ Open(p, "priv")
    /\ Goto(p, "priv_header")
    /\ UNCHANGED <<records, buf, w, idx, data, stdout, rd>>

\* line 130: fastavro._write.Writer(out, schema, sync_marker = marker); the
\* constructor writes the header.
PrivHeader(p) ==
    /\ pc[p] = "priv_header"
    /\ OutWrite(p, write_header(marker))
    /\ Goto(p, "priv_writer")
    /\ UNCHANGED <<records, buf, w, idx, data, stdout, rd>>

\* lines 132-133: buf = io.BytesIO(); w = Writer(buf, schema, sync_marker = marker)
PrivNewWriter(p) ==
    /\ pc[p] = "priv_writer"
    /\ buf' = [buf EXCEPT ![p] = [value |-> write_header(marker),
                                  pos |-> Len(write_header(marker))]]
    /\ w' = [w EXCEPT ![p] = NewWriter]
    /\ Goto(p, "priv_seek")
    /\ UNCHANGED <<fs, out, records, idx, data, stdout, rd, overlap>>

\* line 134: buf.seek(0)
PrivSeek(p) ==
    /\ pc[p] = "priv_seek"
    /\ buf' = [buf EXCEPT ![p].pos = 0]
    /\ Goto(p, "priv_truncate")
    /\ UNCHANGED <<fs, out, records, w, idx, data, stdout, rd, overlap>>

PrivTruncate_out(p) ==
    /\ pc[p] = "priv_truncate"
    /\ fs' = [fs EXCEPT ![out[p].file] = <<>>]
    /\ idx' = [idx EXCEPT ![p] = 0]
    /\ Goto(p, "priv_loop")
    /\ UNCHANGED <<buf, out, records, w, data, stdout, rd, overlap>>

\* line 135: buf.truncate(0)
PrivTruncate(p) ==
    /\ pc[p] = "priv_truncate"
    /\ buf' = [buf EXCEPT ![p].value = <<>>]
    /\ idx' = [idx EXCEPT ![p] = 0]
    /\ Goto(p, "priv_loop")
    /\ UNCHANGED <<fs, out, records, w, data, stdout, rd, overlap>>

\* lines 137-138: for rec in records: w.write(rec)
PrivWrite(p) ==
    /\ pc[p] = "priv_loop"
    /\ idx[p] < Len(records[p])
    /\ w' = [w EXCEPT ![p] = Writer_write(@, records[p][idx[p] + 1], marker)]
    /\ buf' = [buf EXCEPT ![p] =
                 [value |-> WriteAt(@.value, @.pos, w'[p].sent),
                  pos   |-> @.pos + Len(w'[p].sent)]]
    /\ idx' = [idx EXCEPT ![p] = @ + 1]
    /\ Goto(p, "priv_loop")
    /\ UNCHANGED <<fs, out, records, data, stdout, rd, overlap>>

\* line 140: w.flush()
PrivFlush(p) ==
    /\ pc[p] = "priv_loop"
    /\ idx[p] = Len(records[p])
    /\ w' = [w EXCEPT ![p] = Writer_flush(@, marker)]
    /\ buf' = [buf EXCEPT ![p] =
                 [value |-> WriteAt(@.value, @.pos, w'[p].sent),
                  pos   |-> @.pos + Len(w'[p].sent)]]
    /\ Goto(p, "priv_copy")
    /\ UNCHANGED <<fs, out, records, idx, data, stdout, rd, overlap>>

\* line 142: out.write(buf.getvalue())
PrivCopy(p) ==
    /\ pc[p] = "priv_copy"
    /\ OutWrite(p, buf[p].value)
    /\ Goto(p, "priv_close")
    /\ UNCHANGED <<records, buf, w, idx, data, stdout, rd>>

PrivClose(p) ==
    /\ pc[p] = "priv_close"
    /\ Close(p)
    /\ Goto(p, "buff_open")
    /\ UNCHANGED <<records, buf, w, idx, data, stdout, rd>>

\* val.find(marker): the lowest index at which sub occurs in val, -1 if none.
find(val, sub) ==
    IF \E i \in 0..(Len(val) - Len(sub)) : SubSeq(val, i + 1, i + Len(sub)) = sub
    THEN CHOOSE i \in 0..(Len(val) - Len(sub)) :
            /\ SubSeq(val, i + 1, i + Len(sub)) = sub
            /\ \A j \in 0..(i - 1) : SubSeq(val, j + 1, j + Len(sub)) # sub
    ELSE -1

create_block_cut_schema_nolen(recs, mk) ==
    SubSeq(fastavro_writer(recs, mk), find(fastavro_writer(recs, mk), mk) + 1,
           Len(fastavro_writer(recs, mk)))

\* lines 65-69: the full file written to a buffer, cut after the first
\* occurrence of the marker.
create_block_cut_schema(recs, mk) ==
    SubSeq(fastavro_writer(recs, mk),
           find(fastavro_writer(recs, mk), mk) + Len(mk) + 1,
           Len(fastavro_writer(recs, mk)))

\* line 145
BuffOpen(p) ==
    /\ pc[p] = "buff_open"
    /\ Open(p, "buff")
    /\ Goto(p, "buff_header")
    /\ UNCHANGED <<records, buf, w, idx, data, stdout, rd>>

\* line 147
BuffHeader(p) ==
    /\ pc[p] = "buff_header"
    /\ OutWrite(p, fastavro_writer(<<>>, marker))
    /\ Goto(p, "buff_cut")
    /\ UNCHANGED <<records, buf, w, idx, data, stdout, rd>>

\* line 148: block = create_block_cut_schema(schema, records, marker)
BuffCut(p) ==
    /\ pc[p] = "buff_cut"
    /\ data' = [data EXCEPT ![p] = create_block_cut_schema(records[p], marker)]
    /\ Goto(p, "buff_write")
    /\ UNCHANGED <<fs, out, records, buf, w, idx, stdout, rd, overlap>>

\* line 149: out.write(block)
BuffWrite(p) ==
    /\ pc[p] = "buff_write"
    /\ OutWrite(p, data[p])
    /\ Goto(p, "buff_close")
    /\ UNCHANGED <<records, buf, w, idx, data, stdout, rd>>

BuffClose(p) ==
    /\ pc[p] = "buff_close"
    /\ Close(p)
    /\ Goto(p, "done")
    /\ UNCHANGED <<records, buf, w, idx, data, stdout, rd>>

\* read(name), lines 151-156, in a later run of the program on one of the
\* files: every record the reader yields is printed.
ReadFile(p) ==
    /\ pc[p] = "done"
    /\ \E f \in Files :
          /\ rd' = [file |-> f, result |-> fastavro_reader(fs[f])]
          /\ stdout' = stdout \o fastavro_reader(fs[f]).records
    /\ Goto(p, "read")
    /\ UNCHANGED <<fs, out, records, buf, w, idx, data, overlap>>

-----------------------------------------------------------------------------
(* Specifications *)

CodecIdle ==
    /\ cin = Zero
    /\ cop = "idle"
    /\ czz = Zero
    /\ cenc = Returned(<<>>)

NoRead == [file |-> "none", result |-> ReadError(NoRecords)]

ProgIdle ==
    /\ records = [p \in Procs |-> <<>>]
    /\ out = [p \in Procs |-> Closed]
    /\ buf = [p \in Procs |-> [value |-> <<>>, pos |-> 0]]
    /\ w = [p \in Procs |-> NewWriter]
    /\ idx = [p \in Procs |-> 0]
    /\ data = [p \in Procs |-> <<>>]
    /\ stdout = <<>>
    /\ rd = NoRead
    /\ overlap = FALSE

\* A container an earlier run left under the same name.
OldFile == fastavro_writer(<<User(Chris, 7, red)>>, marker)

\* One run of write(), then read() of one of its files.  The paths it writes
\* are new, or hold an earlier container.
Init ==
    /\ CodecIdle
    /\ ProgIdle
    /\ fs \in { [f \in Files |-> old] : old \in {<<>>, OldFile} }
    /\ pc = [p \in Procs |-> IF p = Main THEN "start" ELSE "idle"]

Next ==
    \E p \in {Main} :
        \/ GenerateRecords(p)
        \/ RealOpen(p) \/ RealWriter(p) \/ RealClose(p)
        \/ FakeOpen(p) \/ FakeHeader(p) \/ FakeBuf(p) \/ FakeEncode(p)
        \/ FakeGetValue(p) \/ FakeWriteCount(p) \/ FakeWriteSize(p)
        \/ FakeWriteData(p) \/ FakeWriteMarker(p) \/ FakeClose(p)
        \/ PrivOpen(p) \/ PrivHeader(p) \/ PrivNewWriter(p) \/ PrivSeek(p)
        \/ PrivTruncate(p) \/ PrivWrite(p) \/ PrivFlush(p) \/ PrivCopy(p)
        \/ PrivClose(p)
        \/ BuffOpen(p) \/ BuffHeader(p) \/ BuffCut(p) \/ BuffWrite(p)
        \/ BuffClose(p)
        \/ ReadFile(p)

Spec == Init /\ [][Next]_vars

\* Two runs of lines 92-124 against the same path, each with records of its
\* own, their statements interleaved in any order.
ConcLists ==
    { Repeat(<<User(Chris, 7, red)>>, NumRecords),
      Repeat(<<User(Repeat(Digits, MaxRepeat), 1024, red)>>, NumRecords) }

InitConc ==
    /\ CodecIdle
    /\ out = [p \in Procs |-> Closed]
    /\ buf = [p \in Procs |-> [value |-> <<>>, pos |-> 0]]
    /\ w = [p \in Procs |-> NewWriter]
    /\ idx = [p \in Procs |-> 0]
    /\ data = [p \in Procs |-> <<>>]
    /\ stdout = <<>>
    /\ rd = NoRead
    /\ overlap = FALSE
    /\ records \in [Procs -> ConcLists]
    /\ fs = [f \in Files |-> <<>>]
    /\ pc = [p \in Procs |-> "fake_open"]

NextConc ==
    \E p \in Procs :
        \/ FakeOpen(p) \/ FakeHeader(p) \/ FakeBuf(p) \/ FakeEncode(p)
        \/ FakeGetValue(p) \/ FakeWriteCount(p) \/ FakeWriteSize(p)
        \/ FakeWriteData(p) \/ FakeWriteMarker(p) \/ FakeClose(p)

SpecConc == InitConc /\ [][NextConc]_vars

-----------------------------------------------------------------------------
(* Arithmetic used to state the claims (not the code's bit manipulation) *)

\* The bits of x + y from bit i on, given the carry into bit i; the last
\* element (bit NBits + 1) is the sign of the sum.
RECURSIVE SumFrom(_, _, _, _)
SumFrom(x, y, i, carry) ==
    IF i > NBits + 1 THEN <<>>
    ELSE <<(BitAt(x, i) + BitAt(y, i) + carry) % 2>>
         \o SumFrom(x, y, i + 1, (BitAt(x, i) + BitAt(y, i) + carry) \div 2)

\* x + y by ripple carry.
BigAdd(x, y) ==
    CHOOSE r \in { [bits |-> [i \in 1..NBits |-> s[i]], neg |-> s[NBits + 1] = 1]
                   : s \in { SumFrom(x, y, 1, 0) } } : TRUE

\* -x - 1
BigNot(x) == [bits |-> [i \in 1..NBits |-> 1 - x.bits[i]], neg |-> ~x.neg]

\* -x
BigNeg(x) == BigAdd(BigNot(x), FromInt(1))

\* 2^e
BigPow2(e) == [bits |-> [i \in 1..NBits |-> IF i = e + 1 THEN 1 ELSE 0], neg |-> FALSE]

\* -2^63 <= x <= 2^63 - 1
InSigned64(x) == \A i \in (ShiftBits + 1)..NBits : x.bits[i] = Ext(x)

\* 0 <= x <= 2^64 - 1
InUnsigned64(x) == ~x.neg /\ \A i \in (ShiftBits + 2)..NBits : x.bits[i] = 0

\* -2^20 <= x < 2^20
IsSmall(x) == \A i \in 21..NBits : x.bits[i] = Ext(x)

MinInt64 == BigNeg(BigPow2(ShiftBits))
MaxUInt64 == BigAdd(BigPow2(ShiftBits + 1), FromInt(-1))

\* Number of bits of a non-negative x (0 for 0).
BitLength(x) ==
    IF \A i \in 1..NBits : x.bits[i] = 0 THEN 0
    ELSE CHOOSE i \in 1..NBits :
            x.bits[i] = 1 /\ \A j \in (i+1)..NBits : x.bits[j] = 0

\* Bits 7*i .. 7*i+6 of x as a number, i counted from 0.
Group(x, i) ==
    BitAt(x, 7*i + 1) + 2 * BitAt(x, 7*i + 2) + 4 * BitAt(x, 7*i + 3)
    + 8 * BitAt(x, 7*i + 4) + 16 * BitAt(x, 7*i + 5) + 32 * BitAt(x, 7*i + 6)
    + 64 * BitAt(x, 7*i + 7)

\* The inverse varint decoder: the low 7 bits of byte i shifted left by 7*i,
\* summed, up to and including the first byte without the high bit.
VarintConsumed(bytes) ==
    IF \E i \in 1..Len(bytes) : bytes[i] < 128
    THEN CHOOSE i \in 1..Len(bytes) :
            bytes[i] < 128 /\ \A j \in 1..(i-1) : bytes[j] >= 128
    ELSE 0

VarintDecode(bytes) ==
    LET k == VarintConsumed(bytes)
    IN  [bits |-> [i \in 1..NBits |->
                     IF (i-1) \div 7 < k
                     THEN ((bytes[(i-1) \div 7 + 1] % 128) \div 2^((i-1) % 7)) % 2
                     ELSE 0],
         neg  |-> FALSE]

\* The inverse zigzag mapping: u/2 for even u, -(u+1)/2 for odd u.
ZigzagDecode(u) ==
    IF u.bits[1] = 0 THEN Shr(u, 1) ELSE BigNot(Shr(u, 1))

-----------------------------------------------------------------------------
(* The codec applied to arguments from the 64-bit ranges *)

\* Offsets around each power of two taken as arguments.
MaxOffset == 3

SignedArgs ==
    { x \in { BigAdd(BigPow2(e), FromInt(d)) : e \in 0..ShiftBits, d \in -MaxOffset..MaxOffset }
         \cup { BigAdd(BigNeg(BigPow2(e)), FromInt(d)) : e \in 0..ShiftBits, d \in -MaxOffset..MaxOffset }
      : InSigned64(x) }

UnsignedArgs ==
    { x \in { BigAdd(BigPow2(e), FromInt(d)) : e \in 0..(ShiftBits + 1), d \in -MaxOffset..MaxOffset }
      : InUnsigned64(x) }

InitCodec ==
    /\ cin \in SignedArgs \cup UnsignedArgs
    /\ cop = "idle"
    /\ czz = Zero
    /\ cenc = Returned(<<>>)
    /\ ProgIdle
    /\ fs = [f \in Files |-> <<>>]
    /\ pc = [p \in Procs |-> "idle"]

CallZigzagEncode ==
    /\ cop = "idle"
    /\ InSigned64(cin)
    /\ czz' = zigzag_encode(cin)
    /\ cop' = "zigzag_encode"
    /\ UNCHANGED <<cin, cenc>>
    /\ UNCHANGED progVars

CallVarintEncode ==
    /\ cop = "idle"
    /\ InUnsigned64(cin)
    /\ cenc' = varint_encode(cin)
    /\ cop' = "varint_encode"
    /\ UNCHANGED <<cin, czz>>
    /\ UNCHANGED progVars

CallEncodeZigzagVarint ==
    /\ cop = "idle"
    /\ InSigned64(cin)
    /\ cenc' = encode_zigzag_varint(cin)
    /\ cop' = "encode_zigzag_varint"
    /\ UNCHANGED <<cin, czz>>
    /\ UNCHANGED progVars

NextCodec == CallZigzagEncode \/ CallVarintEncode \/ CallEncodeZigzagVarint

SpecCodec == InitCodec /\ [][NextCodec]_vars

-----------------------------------------------------------------------------
(* Claims about the codec *)

\* C1: for every n in [-2^63, 2^63 - 1], the minimum included,
\* zigzag_encode(n) is 2*n when n >= 0 and -2*n - 1 when n < 0
\* (0 -> 0, -1 -> 1, 1 -> 2, -2 -> 3), and lies in [0, 2^64 - 1].
C1_ZigzagValue ==
    cop = "zigzag_encode" =>
        /\ czz = IF IsNeg(cin) THEN BigAdd(BigNeg(BigAdd(cin, cin)), FromInt(-1))
                 ELSE BigAdd(cin, cin)
        /\ InUnsigned64(czz)
        /\ IsSmall(cin) =>
              ToInt(czz) = IF ToInt(cin) >= 0 THEN 2 * ToInt(cin)
                           ELSE -2 * ToInt(cin) - 1
        /\ cin = FromInt(0)  => czz = FromInt(0)
        /\ cin = FromInt(-1) => czz = FromInt(1)
        /\ cin = FromInt(1)  => czz = FromInt(2)
        /\ cin = FromInt(-2) => czz = FromInt(3)

\* zigzag_encode was applied to -2^63 and returned 2^64 - 1.
C1_Witness ==
    cop = "zigzag_encode" /\ cin = MinInt64 /\ czz = MaxUInt64

\* C2: for all signed 64-bit n, the inverse varint decoder followed by the
\* inverse zigzag mapping, applied to encode_zigzag_varint(n), yields n and
\* consumes exactly all the bytes produced.
C2_RoundTrip ==
    cop = "encode_zigzag_varint" =>
        /\ ~cenc.raised
        /\ VarintConsumed(cenc.value) = Len(cenc.value)
        /\ ZigzagDecode(VarintDecode(cenc.value)) = cin

\* encode_zigzag_varint was applied to -2^63 and returned ten bytes.
C2_Witness ==
    /\ cop = "encode_zigzag_varint" /\ cin = MinInt64
    /\ ~cenc.raised /\ Len(cenc.value) = 10

\* C3: for every unsigned 64-bit u, varint_encode(u) emits u in 7-bit groups,
\* least significant first: byte i carries bits 7*i .. 7*i+6 of u in its low 7
\* bits, every byte but the last has the high bit set, the last has it clear.
C3_Groups ==
    cop = "varint_encode" =>
        /\ ~cenc.raised
        /\ Len(cenc.value) >= 1
        /\ \A i \in 1..Len(cenc.value) :
              /\ cenc.value[i] \in 0..255
              /\ cenc.value[i] % 128 = Group(cin, i - 1)
              /\ (cenc.value[i] >= 128) <=> (i < Len(cenc.value))
        /\ \A j \in 1..NBits : j > 7 * Len(cenc.value) => cin.bits[j] = 0

\* varint_encode was applied to 2^64 - 1 and returned nine 0xFF and a 0x01.
C3_Witness ==
    /\ cop = "varint_encode" /\ cin = MaxUInt64
    /\ cenc = Returned(<<255, 255, 255, 255, 255, 255, 255, 255, 255, 1>>)

\* C4: varint_encode is minimal-length: the output has exactly
\* max(1, ceil(bitlength(u)/7)) bytes, so the final byte is non-zero unless
\* u = 0; encode(0) = [0x00], encode(127) = [0x7F], encode(128) = [0x80, 0x01].
C4_Minimal ==
    cop = "varint_encode" =>
        /\ ~cenc.raised
        /\ Len(cenc.value) =
              IF BitLength(cin) = 0 THEN 1 ELSE (BitLength(cin) + 6) \div 7
        /\ cin # Zero => cenc.value[Len(cenc.value)] # 0
        /\ cin = FromInt(0)   => cenc.value = <<0>>
        /\ cin = FromInt(127) => cenc.value = <<127>>
        /\ cin = FromInt(128) => cenc.value = <<128, 1>>

\* varint_encode was applied to 128 and returned [0x80, 0x01].
C4_Witness ==
    cop = "varint_encode" /\ cin = FromInt(128) /\ cenc = Returned(<<128, 1>>)

-----------------------------------------------------------------------------
(* Claims about the container files *)

\* The statements of write() in program order, and the place of a label.
Order ==
    << "start", "real_open", "real_writer", "real_close",
       "fake_open", "fake_header", "fake_buf", "fake_loop", "fake_count",
       "fake_size", "fake_data", "fake_marker", "fake_close",
       "priv_open", "priv_header", "priv_writer", "priv_seek", "priv_truncate",
       "priv_loop", "priv_copy", "priv_close",
       "buff_open", "buff_header", "buff_cut", "buff_write", "buff_close",
       "done", "read" >>

Place(label) == CHOOSE i \in 1..Len(Order) : Order[i] = label

\* The run has passed the statement at label.
Past(p, label) == pc[p] # "idle" /\ Place(pc[p]) > Place(label)

\* The run has opened file f.
Opened(p, f) ==
    \/ f = "real" /\ Past(p, "real_open")
    \/ f = "fake" /\ Past(p, "fake_open")
    \/ f = "priv" /\ Past(p, "priv_open")
    \/ f = "buff" /\ Past(p, "buff_open")

IsPrefix(a, b) == Len(a) <= Len(b) /\ SubSeq(b, 1, Len(a)) = a

RECURSIVE Concat(_)
Concat(ss) == IF ss = <<>> THEN <<>> ELSE Head(ss) \o Concat(Tail(ss))

\* The encodings of the records of a list, in order.
Encodings(rs) == [i \in 1..Len(rs) |-> write_record(rs[i])]

\* C5: a header-only container (zero blocks) written with marker M, then one
\* hand-framed block of k records appended with the same M: a reader walking
\* the file block by block returns exactly those k records, in the order they
\* were encoded, and nothing else.
C5_AppendCorrect ==
    /\ (Past(Main, "fake_header") /\ ~Past(Main, "fake_count")) =>
          fastavro_reader(fs["fake"]) =
              [ok |-> TRUE, records |-> <<>>, blocks |-> 0, markers_ok |-> TRUE]
    /\ Past(Main, "fake_marker") =>
          /\ fastavro_reader(fs["fake"]).ok
          /\ fastavro_reader(fs["fake"]).blocks = 1
          /\ fastavro_reader(fs["fake"]).records = records[Main]
    /\ (pc[Main] = "read" /\ rd.file = "fake") =>
          /\ rd.result.ok
          /\ rd.result.records = records[Main]
          /\ stdout = <<Len(records[Main])>> \o records[Main]

\* read() was run on the hand-framed file and printed its NumRecords records.
C5_Witness ==
    /\ pc[Main] = "read" /\ rd.file = "fake"
    /\ rd.result.ok /\ rd.result.blocks = 1
    /\ Len(rd.result.records) = NumRecords
    /\ rd.result.records = records[Main]

\* C6: the hand-framed block written after the header is, in this order and
\* with nothing in between: the zigzag-varint of count, the zigzag-varint of
\* the byte length of the data, the data, the 16-byte marker; count is the
\* number of records whose encodings were concatenated and the declared length
\* is the length of that concatenation.
C6_BlockLayout ==
    Past(Main, "fake_marker") =>
        fs["fake"] =
            write_header(marker)
            \o write_long(Len(records[Main]))
            \o write_long(Len(Concat(Encodings(records[Main]))))
            \o Concat(Encodings(records[Main]))
            \o marker

\* The block has been written and its data needs a two-byte length.
C6_Witness ==
    /\ pc[Main] = "fake_close"
    /\ Len(data[Main]) >= 64
    /\ Len(fs["fake"]) = Len(write_header(marker)) + 1 + 2 + Len(data[Main]) + 16

\* C7: in every container file the program writes, the 16-byte marker
\* trailing every block is the marker written in that file's header; this
\* holds for all four write paths.
C7_MarkerEverywhere ==
    \A f \in Files :
        (Opened(Main, f) /\ out[Main].file # f) =>
            /\ fastavro_reader(fs[f]).ok
            /\ fastavro_reader(fs[f]).blocks >= 1
            /\ fastavro_reader(fs[f]).markers_ok
            /\ SubSeq(fs[f], Len(write_header(marker)) - 15,
                      Len(write_header(marker))) = marker
            /\ SubSeq(fs[f], Len(fs[f]) - 15, Len(fs[f])) = marker

\* All four files are written; the library writer's file has several blocks.
C7_Witness ==
    /\ pc[Main] = "done"
    /\ fastavro_reader(fs["real"]).blocks >= 2
    /\ \A f \in Files : fastavro_reader(fs[f]).markers_ok /\ fastavro_reader(fs[f]).ok

\* C8: for the same input records, the container written as several blocks
\* (the library writer's own boundaries) and the container written as one
\* hand-framed block both parse to exactly the input records in the input
\* order; block granularity never changes record values or order.
C8_FramingInvariance ==
    Past(Main, "buff_close") =>
        /\ fastavro_reader(fs["real"]).ok
        /\ fastavro_reader(fs["fake"]).ok
        /\ fastavro_reader(fs["real"]).records = records[Main]
        /\ fastavro_reader(fs["fake"]).records = fastavro_reader(fs["real"]).records
        /\ fastavro_reader(fs["priv"]).records = fastavro_reader(fs["real"]).records
        /\ fastavro_reader(fs["buff"]).records = fastavro_reader(fs["real"]).records

\* The same records are held as two blocks in one file and one in the other.
C8_Witness ==
    /\ pc[Main] = "done"
    /\ fastavro_reader(fs["real"]).blocks = 2
    /\ fastavro_reader(fs["fake"]).blocks = 1
    /\ fastavro_reader(fs["real"]).records = records[Main]
    /\ fastavro_reader(fs["fake"]).records = records[Main]

-----------------------------------------------------------------------------
(* Two runs against one file *)

ConcDone == \A p \in Procs : pc[p] = "priv_open"

\* The bytes after the header are a concatenation of count/size/data/marker
\* blocks.
WellFormed(bytes) ==
    fastavro_reader(bytes).ok /\ fastavro_reader(bytes).markers_ok

=============================================================================
